---- MODULE Spec2Model ----
(***************************************************************************)
(* Model of pyagents.memory.PrioritizedBuffer (prioritizedbuffer.py): the  *)
(* ring buffer of transitions, the short-term queue of the n-step return,  *)
(* the sum tree of priorities it delegates to, stratified sampling, the    *)
(* importance-sampling weights and the beta schedule; of the training      *)
(* updates of DQNAgent (agents/dqn_agent.py) and VPG (pyagents/agents/     *)
(* vpg.py); and of the loops of the drivers of train.py.                   *)
(*                                                                         *)
(* Numbers.  Priorities and errors are integers (the descent of the sum    *)
(* tree compares a target with integer masses, so only the integer part of *)
(* a real target matters).  beta, beta_max and beta_inc are kept as        *)
(* numerators over the common denominator `steps` of the schedule, which   *)
(* makes (beta_max - beta) / steps exact.  A discount is a pair            *)
(* <<num, den>>.                                                           *)
(***************************************************************************)
EXTENDS Integers, Sequences, FiniteSets, TLC

VARIABLES
    size,        \* self._size
    n,           \* self._n = n_step_return - 1
    stmemory,    \* self._stmemory, a deque(maxlen = self._n)
    ltmemory,    \* self._ltmemory, a dict: slot -> transition
    ptr,         \* self._ptr
    tree,        \* self._sum_tree: the array of node values
    assigned,    \* self._sum_tree: the leaves that were ever given a priority
    beta,        \* self._beta      (numerator over beta_cfg[3])
    beta_max,    \* self._beta_max  (numerator over beta_cfg[3])
    beta_inc,    \* self._beta_inc  (numerator over beta_cfg[3])
    beta_cfg,    \* the constructor's beta = (beta_start, beta_end, steps)
    outcome,     \* how the last call ended: "ok" or the exception it raised
    returned,    \* the indexes of the last sample(), until update_samples gets them
    drawn,       \* the (lb, ub) that sample() passed to the sum tree, over batch_size
    hist,        \* every fragment handed to commit_stmemory, in order
    log,         \* every transition handed to commit_ltmemory, in order
    nsample,     \* the number of sample() calls that returned
    n_envs,      \* the environments stepped in parallel: the batch size of a fragment
    stale,       \* the slots of the last sample() that a commit has since overwritten
    is_weights,  \* the is_weights of the last sample(), until update_samples is called
    weights,               \* DQNAgent: the storage of the parameters, cell -> value
    online_q_network,      \* self._online_q_network.variables: the cells it owns
    target_q_network,      \* self._target_q_network.variables: the cells it owns
    train_step,            \* self._train_step
    tau,                   \* self._tau, a fraction
    target_update_period,  \* self._target_update_period
    loss,                  \* the loss of the last _train: "finite" or "nan"
    calls,                 \* the calls the last _train made, in order
    nsync,                 \* the number of _update_target() calls
    actor,       \* VPG: self._actor.trainable_variables, the cells it owns
    critic,      \* VPG: self._critic.trainable_variables, or None
    actor_opt,   \* VPG: self._actor_opt is not None
    critic_opt,  \* VPG: self._critic_opt is not None
    training,    \* VPG: the constructor's training
    trajectory,  \* VPG: self._trajectory, the three lists
    used,        \* VPG: for the k-th remember(), the updates that read its triple
    args,           \* train.py: the driver that runs and its arguments
    pc,             \* train.py: where the driver is
    episode,        \* train.py: episode
    episode_step,   \* train.py: step (episode_step in the a2c and ddpg drivers)
    done,           \* train.py: done
    training_step,  \* train.py: training_step
    losses          \* train.py: whether the name `losses` is bound

vars == <<size, n, stmemory, ltmemory, ptr, tree, assigned, beta, beta_max,
          beta_inc, beta_cfg, outcome, returned, drawn, hist, log, nsample,
          n_envs, stale, is_weights, weights, online_q_network, target_q_network,
          train_step, tau, target_update_period, loss, calls, nsync, actor,
          critic, actor_opt, critic_opt, training, trajectory, used, args, pc,
          episode, episode_step, done, training_step, losses>>

bufVars == <<stmemory, ltmemory, ptr, tree, assigned, beta>>
cfgVars == <<size, n, beta_max, beta_inc, beta_cfg, n_envs>>
memVars == <<bufVars, cfgVars, returned, drawn, hist, log, nsample, stale,
             is_weights>>
dqnVars == <<weights, online_q_network, target_q_network, train_step, tau,
             target_update_period, loss, calls, nsync>>
dqnOnly == <<online_q_network, target_q_network, tau, target_update_period, nsync>>
vpgVars == <<actor, critic, actor_opt, critic_opt, training, trajectory, used>>
drvVars == <<args, pc, episode, episode_step, done, training_step, losses>>
extVars == <<dqnVars, vpgVars, drvVars>>

(***************************************************************************)
(* Bounds of the model.                                                    *)
(***************************************************************************)
MaxSize == 2        \* capacities 1 .. MaxSize
MaxN == 3           \* n_step_return in 1 .. MaxN
MaxEnvs == 2        \* 1 .. MaxEnvs parallel environments
MaxCommits == 4     \* transitions committed in one run of Spec and SpecBeta
MaxBatch == 2       \* batch_size in 1 .. MaxBatch
MaxSamples == 2     \* completed sample() calls in one run of Spec
MaxBetaSteps == 2   \* steps of a beta schedule in 1 .. MaxBetaSteps
MaxParams == 2      \* a network has 1 .. MaxParams parameters
MaxTrain == 2       \* _train() calls in one run of SpecDqn
MaxPeriod == 2      \* target_update_period in 1 .. MaxPeriod
MaxSync == 2        \* _update_target() calls in one run of SpecDqn
MaxRemember == 3    \* remember() calls in one run of SpecVpg
MaxEpisodes == 2    \* n_episodes in 1 .. MaxEpisodes
MaxEpisodeSteps == 2    \* episode_max_steps in 1 .. MaxEpisodeSteps
MaxTrainingSteps == 2   \* total_training_steps in 1 .. MaxTrainingSteps
MaxTrainEvery == 2      \* steps_to_train and train_every in 1 .. MaxTrainEvery

Rewards == {1}
Errors == {-1, 0, 2}
Gamma == <<1, 2>>
BetaEnds == {0, 1}

Max(S) == CHOOSE x \in S : \A y \in S : y <= x
Min2(a, b) == IF a <= b THEN a ELSE b

Abs(x) == IF x < 0 THEN -x ELSE x

RECURSIVE Pow(_, _)
Pow(b, e) == IF e = 0 THEN 1 ELSE b * Pow(b, e - 1)

RECURSIVE Gcd(_, _)
Gcd(a, b) == IF b = 0 THEN a ELSE Gcd(b, a % b)

(***************************************************************************)
(* SumTree (pyagents/memory/sum_tree.py): an array-backed binary tree over *)
(* `size` leaves; node i has the children 2i+1 and 2i+2, the leaf of slot  *)
(* s is node s + size - 1.                                                 *)
(***************************************************************************)
Nodes(c) == 0 .. (2 * c - 2)
Leaf(c, s) == s + c - 1
Parent(i) == (i - 1) \div 2
IsLeaf(c, i) == i >= c - 1

RECURSIVE OnPath(_, _)
OnPath(i, j) == i = j \/ (j > 0 /\ OnPath(i, Parent(j)))

SumTreeGet(tr, c, s) == tr[Leaf(c, s)]

SumTreeTotal(tr) == tr[0]

SumTreeLen(asg) == Cardinality(asg)

SumTreeDefault(tr, c, asg) ==
    IF asg = {} THEN 1 ELSE Max({SumTreeGet(tr, c, s) : s \in 0 .. (c - 1)})

\* set() that stops the propagation below the root.
SumTreeSetBroken(tr, c, s, p) ==
    LET d == p - tr[Leaf(c, s)]
    IN  [i \in DOMAIN tr |->
            IF i = Leaf(c, s) \/ (i = Parent(Leaf(c, s)) /\ i > 0)
            THEN tr[i] + d ELSE tr[i]]

SumTreeSet(tr, c, s, p) ==
    LET d == p - tr[Leaf(c, s)]
    IN  [i \in DOMAIN tr |-> IF OnPath(i, Leaf(c, s)) THEN tr[i] + d ELSE tr[i]]

RECURSIVE SumTreeDescend(_, _, _, _)
SumTreeDescend(tr, c, i, target) ==
    IF IsLeaf(c, i) THEN i - (c - 1)
    ELSE IF target < tr[2 * i + 1]
         THEN SumTreeDescend(tr, c, 2 * i + 1, target)
         ELSE SumTreeDescend(tr, c, 2 * i + 2, target - tr[2 * i + 1])

\* The integer parts of the targets in [lb * total, ub * total), for lb = seg[1] / bs
\* and ub = seg[2] / bs.
Targets(total, bs, seg) ==
    ((seg[1] * total) \div bs) .. (((seg[2] * total + bs - 1) \div bs) - 1)

\* The slots sample(lb, ub) can return.  With no positive total mass the draw is
\* undefined: any leaf.
SumTreeSample(tr, c, bs, seg) ==
    IF SumTreeTotal(tr) > 0
    THEN {SumTreeDescend(tr, c, 0, x) : x \in Targets(SumTreeTotal(tr), bs, seg)}
    ELSE 0 .. (c - 1)

(***************************************************************************)
(* PrioritizedBuffer.commit_ltmemory, as a function of the buffer's state. *)
(***************************************************************************)
Put(d, k, v) == [x \in (DOMAIN d) \cup {k} |-> IF x = k THEN v ELSE d[x]]

LtState(lt, tr, asg, p) == [lt |-> lt, tr |-> tr, asg |-> asg, p |-> p]

\* commit_ltmemory with a cursor that stops at the last slot instead of wrapping.
CommitLtClamp(st, c, experience) ==
    LtState(Put(st.lt, st.p, experience),
            SumTreeSet(st.tr, c, st.p, SumTreeDefault(st.tr, c, st.asg)),
            st.asg \cup {st.p},
            IF st.p + 1 < c THEN st.p + 1 ELSE st.p)

\* commit_ltmemory that advances the cursor before it marks the slot in the tree.
CommitLtLate(st, c, experience) ==
    LET p2 == (st.p + 1) % c
    IN  LtState(Put(st.lt, st.p, experience),
                SumTreeSet(st.tr, c, p2, SumTreeDefault(st.tr, c, st.asg)),
                st.asg \cup {p2},
                p2)

CommitLt(st, c, experience) ==
    LtState(Put(st.lt, st.p, experience),
            SumTreeSet(st.tr, c, st.p, SumTreeDefault(st.tr, c, st.asg)),
            st.asg \cup {st.p},
            (st.p + 1) % c)

RECURSIVE CommitAll(_, _, _)
CommitAll(st, c, exps) ==
    IF exps = <<>> THEN st
    ELSE CommitAll(CommitLt(st, c, Head(exps)), c, Tail(exps))

(***************************************************************************)
(* Fragments.  The state of environment b at step t is <<t, b>>; the       *)
(* fragment of step t holds, for each of its environments, the transition  *)
(* from <<t, b>> to <<t + 1, b>>.  A reward is a fraction [num, den].      *)
(***************************************************************************)
Rat(a, b) == [num |-> a, den |-> b]

Fragment(t, rs, ds) ==
    [states      |-> [b \in DOMAIN rs |-> <<t, b>>],
     actions     |-> [b \in DOMAIN rs |-> 0],
     rewards     |-> rs,
     next_states |-> [b \in DOMAIN rs |-> <<t + 1, b>>],
     dones       |-> ds]

Transition(s, a, r, s2, d) ==
    [state |-> s, action |-> a, reward |-> r, next_state |-> s2, done |-> d]

\* deque(maxlen = m).append(x)
DequeAppend(q, m, x) ==
    IF m = 0 THEN q
    ELSE IF Len(q) < m THEN Append(q, x) ELSE Append(Tail(q), x)

\* The keys lines 60-68 read from an entry of the queue.
KeysRead == {"states", "actions", "rewards", "next_states", "dones"}

\* Lines 63-66: the 1-based position of the entry the loop stops at.
NStepLast(stm, b) ==
    LET D == {i \in 1 .. Len(stm) : stm[i].dones[b]}
    IN  IF D = {} THEN Len(stm) ELSE CHOOSE i \in D : \A j \in D : i <= j

RECURSIVE NStepSum(_, _, _, _, _)
NStepSum(stm, b, gamma, m, i) ==
    IF i > m THEN 0
    ELSE Pow(gamma[1], i - 1) * Pow(gamma[2], m - i) * stm[i].rewards[b]
         + NStepSum(stm, b, gamma, m, i + 1)

\* Lines 62-66: r_tpn, the sum of gamma^k * rewards over the entries 0 .. last.
NStepReward(stm, b, gamma) ==
    LET m == NStepLast(stm, b)
    IN  Rat(NStepSum(stm, b, gamma, m, 1), Pow(gamma[2], m - 1))

\* Lines 60-69: lt_experience of batch element b.
NStepExperience(stm, b, gamma) ==
    LET e_k == stm[NStepLast(stm, b)]
    IN  Transition(stm[1].states[b], stm[1].actions[b],
                   NStepReward(stm, b, gamma), e_k.next_states, e_k.dones[b])

\* Lines 74-78: lt_experience of batch element b.
RawExperience(fragment, b) ==
    Transition(fragment.states[b], fragment.actions[b],
               Rat(fragment.rewards[b], 1), fragment.next_states[b],
               fragment.dones[b])


(***************************************************************************)
(* Exact fractions.  A value is [num, den] in lowest terms with den > 0; a  *)
(* value that is not finite (inf, nan) is NaN, and every operation on it    *)
(* gives NaN, as in floating point.                                         *)
(***************************************************************************)
NaN == Rat(0, 0)

Norm(r) ==
    IF r.den = 0 THEN NaN
    ELSE LET g == Gcd(Abs(r.num), Abs(r.den))
             sg == IF r.den < 0 THEN -1 ELSE 1
         IN  Rat(sg * (r.num \div g), sg * (r.den \div g))

RAdd(a, b) == Norm(Rat(a.num * b.den + b.num * a.den, a.den * b.den))
RSub(a, b) == Norm(Rat(a.num * b.den - b.num * a.den, a.den * b.den))
RMul(a, b) == Norm(Rat(a.num * b.num, a.den * b.den))
RDiv(a, b) == Norm(Rat(a.num * b.den, a.den * b.num))
RLess(a, b) == a.den > 0 /\ b.den > 0 /\ a.num * b.den < b.num * a.den
Finite(a) == a.den # 0

(***************************************************************************)
(* PrioritizedBuffer.commit_stmemory(fragment, gamma)                      *)
(***************************************************************************)
CommitStmemory(fragment, gamma) ==
    LET batch_size == Len(fragment.states)
        st_experience == [state      |-> fragment.states,
                          actions    |-> fragment.actions,
                          reward     |-> fragment.rewards,
                          next_state |-> fragment.next_states,
                          dones      |-> fragment.dones]
        st0 == LtState(ltmemory, tree, assigned, ptr)
        aggregate == 1 < n /\ n = Len(stmemory)
        keyError == aggregate /\ ~(KeysRead \subseteq DOMAIN stmemory[1])
        exps == IF aggregate
                THEN [b \in 1 .. batch_size |-> NStepExperience(stmemory, b, gamma)]
                ELSE [b \in 1 .. batch_size |-> RawExperience(fragment, b)]
        st1 == CommitAll(st0, size, exps)
        written == {(ptr + i) % size : i \in 0 .. (batch_size - 1)}
    IN  /\ outcome = "ok"
        /\ hist' = Append(hist, fragment)
        /\ IF keyError
           THEN /\ outcome' = "KeyError"
                /\ UNCHANGED <<bufVars, log, stale>>
           ELSE /\ outcome' = "ok"
                /\ ltmemory' = st1.lt
                /\ tree' = st1.tr
                /\ assigned' = st1.asg
                /\ ptr' = st1.p
                /\ log' = log \o exps
                /\ stale' = stale \cup
                              (written \cap {returned[i] : i \in DOMAIN returned})
                /\ stmemory' = IF aggregate
                               THEN DequeAppend(stmemory, n, st_experience)
                               ELSE stmemory
                /\ UNCHANGED beta
        /\ UNCHANGED <<cfgVars, returned, drawn, nsample, is_weights, extVars>>

(***************************************************************************)
(* PrioritizedBuffer.clear_stmemory()                                      *)
(***************************************************************************)
ClearStmemory ==
    /\ outcome = "ok"
    /\ outcome' = "ok"
    /\ stmemory' = <<>>
    /\ UNCHANGED <<ltmemory, ptr, tree, assigned, beta, cfgVars, returned, drawn,
                   hist, log, nsample, stale, is_weights, extVars>>

(***************************************************************************)
(* PrioritizedBuffer.sample(batch_size): the indexes it draws, the lookup  *)
(* of the sampled transitions and the step of beta.                        *)
(***************************************************************************)
\* Every draw over the whole range: weighted sampling with replacement.
SegmentWhole(bs, i) == <<0, bs>>

\* Lines 90-91: bounds[i] and bounds[i + 1] of linspace(0, 1, bs + 1), over bs.
Segment(bs, i) == <<i, i + 1>>

\* Line 91: the index lists the comprehension can produce.
SampleIndexes(bs) ==
    LET slots == [i \in 1 .. bs |-> SumTreeSample(tree, size, bs, Segment(bs, i - 1))]
    IN  {ix \in [1 .. bs -> 0 .. (size - 1)] : \A i \in 1 .. bs : ix[i] \in slots[i]}

\* The constructor's eps = 0.02
Eps == Rat(1, 50)

\* The reals of lines 94-98, for an alpha that is no integer (the constructor's
\* 0.6): the value c * p^alpha * S^s, where S is priorities_pow.sum(), kept as
\* c, p and s; NaN when it is not a number.
Mono(c, p, s) == [c |-> c, p |-> p, s |-> s]

\* Line 94: np.power(x, alpha), nan for a negative x.
PowAlpha(x) ==
    IF ~Finite(x) \/ x.num < 0 THEN NaN ELSE Mono(Rat(1, 1), x, 0)

\* Line 95: priorities_pow.sum(), nan when an element is.
SumPow(pp) ==
    IF \E i \in DOMAIN pp : pp[i] = NaN THEN NaN ELSE Mono(Rat(1, 1), Rat(1, 1), 1)

MDiv(a, b) ==
    IF a = NaN \/ b = NaN THEN NaN
    ELSE Mono(RDiv(a.c, b.c), RDiv(a.p, b.p), a.s - b.s)

\* a < b for two values with the same c > 0 and the same s: p^alpha increases
\* with p.
MLess(a, b) == a.c = b.c /\ a.s = b.s /\ RLess(a.p, b.p)

MMax(xs) == CHOOSE x \in {xs[i] : i \in DOMAIN xs} :
                \A i \in DOMAIN xs : ~MLess(x, xs[i])

\* A weight is the value x ^ (e / steps) for x > 0, kept as x and the numerator
\* e of the exponent; NaN when it is not a number.
Power(x, e) == [x |-> x, e |-> e]

\* Lines 96-97: np.power(x, beta) for each x > 0 and the division by np.max,
\* for beta = e / steps > 0: the power increases with x, so the maximum is the
\* power of the largest x, and the quotient of two powers is the power of the
\* quotient.  np.max over an array holding a nan is nan, and so is every
\* quotient by it.
PowerOverMax(xs, e) ==
    IF \E i \in DOMAIN xs : xs[i] = NaN
    THEN [i \in DOMAIN xs |-> NaN]
    ELSE [i \in DOMAIN xs |-> Power(MDiv(xs[i], MMax(xs)), e)]

\* Lines 92, 94-99: is_weights, for beta = b / steps.
IsWeights(tr, asg, indexes, b, steps) ==
    LET priorities == [i \in DOMAIN indexes |->
                          RAdd(Rat(SumTreeGet(tr, size, indexes[i]), 1), Eps)]
        priorities_pow == [i \in DOMAIN indexes |-> PowAlpha(priorities[i])]
        probs == [i \in DOMAIN indexes |->
                     MDiv(priorities_pow[i], SumPow(priorities_pow))]
        len == Mono(Rat(SumTreeLen(asg), 1), Rat(1, 1), 0)
        one == Mono(Rat(1, 1), Rat(1, 1), 0)
    IN  IF b # 0
        THEN PowerOverMax([i \in DOMAIN indexes |->
                              MDiv(one, MDiv(probs[i], MDiv(one, len)))], b)
        ELSE [i \in DOMAIN indexes |-> Power(one, steps)]

\* The step of beta without the clamp at beta_max.
BetaStepNoClamp(b, inc, bmax) == b + inc

\* Line 101
BetaStep(b, inc, bmax) == Min2(b + inc, bmax)

Sample(batch_size) ==
    /\ outcome = "ok"
    /\ \E indexes \in SampleIndexes(batch_size) :
          IF \E i \in 1 .. batch_size : indexes[i] \notin DOMAIN ltmemory
          THEN /\ outcome' = "KeyError"
               /\ UNCHANGED <<beta, returned, drawn, nsample, stale, is_weights>>
          ELSE /\ outcome' = "ok"
               /\ beta' = BetaStep(beta, beta_inc, beta_max)
               /\ stale' = {}
               /\ is_weights' = IsWeights(tree, assigned, indexes, beta, beta_cfg[3])
               /\ returned' = indexes
               /\ drawn' = [i \in 1 .. batch_size |-> Segment(batch_size, i - 1)]
               /\ nsample' = nsample + 1
    /\ UNCHANGED <<stmemory, ltmemory, ptr, tree, assigned, cfgVars, hist, log,
                   extVars>>

(***************************************************************************)
(* PrioritizedBuffer.update_samples(errors, indexes); ndim is              *)
(* len(errors.shape).                                                      *)
(***************************************************************************)
\* update_samples that also writes the first error to the slot after the first
\* index.
SetAllSpill(tr, c, errors, indexes) ==
    IF indexes = <<>> \/ errors = <<>> THEN tr
    ELSE SumTreeSet(SumTreeSet(tr, c, Head(indexes), Head(errors)), c,
                    (Head(indexes) + 1) % c, Head(errors))

RECURSIVE SetAll(_, _, _, _)
SetAll(tr, c, errors, indexes) ==
    IF indexes = <<>> \/ errors = <<>> THEN tr
    ELSE SetAll(SumTreeSet(tr, c, Head(indexes), Head(errors)), c,
                Tail(errors), Tail(indexes))

\* The assert without the comparison of the lengths.
ShapeOkLoose(ndim, errors, indexes) == ndim = 1

\* Line 105
ShapeOk(ndim, errors, indexes) == ndim = 1 /\ Len(errors) = Len(indexes)

UpdateSamples(ndim, errors, indexes) ==
    /\ outcome = "ok"
    /\ IF ~ShapeOk(ndim, errors, indexes)
       THEN /\ outcome' = "AssertionError"
            /\ UNCHANGED <<tree, assigned>>
       ELSE /\ outcome' = "ok"
            /\ tree' = SetAll(tree, size, errors, indexes)
            /\ assigned' = assigned \cup {indexes[i] : i \in DOMAIN indexes}
    /\ UNCHANGED <<stmemory, ltmemory, ptr, beta, cfgVars, hist, log, nsample,
                   stale, extVars>>

(***************************************************************************)
(* PrioritizedBuffer.__init__(size, n_step_return, beta).  An int beta b   *)
(* is the schedule (b, b, steps): beta_inc = 0.                            *)
(***************************************************************************)
InitWith(sizes, n_steps, betas) ==
    /\ size \in sizes
    /\ \E n_step_return \in n_steps : n = n_step_return - 1
    /\ stmemory = <<>>
    /\ ltmemory = <<>>
    /\ ptr = 0
    /\ tree = [i \in Nodes(size) |-> 0]
    /\ assigned = {}
    /\ beta_cfg \in betas
    /\ beta = beta_cfg[1] * beta_cfg[3]
    /\ beta_max = beta_cfg[2] * beta_cfg[3]
    /\ beta_inc = beta_cfg[2] - beta_cfg[1]
    /\ outcome = "ok"
    /\ returned = <<>>
    /\ drawn = <<>>
    /\ hist = <<>>
    /\ log = <<>>
    /\ nsample = 0
    /\ n_envs \in 1 .. MaxEnvs
    /\ stale = {}
    /\ is_weights = <<>>

\* The fragments of step t: one transition for each environment, done flags
\* from ds.
Fragments(t, ds) ==
    {Fragment(t, r, d) : r \in [1 .. n_envs -> Rewards], d \in [1 .. n_envs -> ds]}

BetaCfgs == BetaEnds \X BetaEnds \X (1 .. MaxBetaSteps)

\* A run of the buffer alone: no agent is constructed.
NoDqn ==
    /\ weights = <<>>
    /\ online_q_network = <<>>
    /\ target_q_network = <<>>
    /\ train_step = 0
    /\ tau = Rat(1, 1)
    /\ target_update_period = 1
    /\ loss = "finite"
    /\ calls = <<>>
    /\ nsync = 0

\* vpg.py line 85: the empty trajectory
ClearMemory == [states |-> <<>>, actions |-> <<>>, rewards |-> <<>>]

\* critic = None: a network owns at least one cell.
None == <<>>

NoVpg ==
    /\ actor = <<>>
    /\ critic = None
    /\ actor_opt = FALSE
    /\ critic_opt = FALSE
    /\ training = FALSE
    /\ trajectory = ClearMemory
    /\ used = <<>>

\* No driver of train.py runs.
NoDriver ==
    /\ args = <<>>
    /\ pc = "none"
    /\ episode = 0
    /\ episode_step = 0
    /\ done = FALSE
    /\ training_step = 0
    /\ losses = "unbound"

NoAgent == NoDqn /\ NoVpg /\ NoDriver

Init == InitWith(1 .. MaxSize, {1}, {<<0, 1, MaxBetaSteps>>}) /\ NoAgent

Store ==
    /\ Len(log) + n_envs <= MaxCommits
    /\ \E f \in Fragments(Len(hist), {FALSE}) : CommitStmemory(f, Gamma)

Draw ==
    /\ nsample < MaxSamples
    /\ \E bs \in 1 .. MaxBatch : Sample(bs)

\* The <<ndim, errors>> a caller holding the indexes ix may pass: one error for
\* each index; errors of another length; a two-dimensional errors tensor.
BadInputs(ix) ==
    {<<1, [i \in 1 .. k |-> 0]>> : k \in (0 .. MaxBatch) \ {Len(ix)}}
    \cup {<<2, [i \in 1 .. Len(ix) |-> 0]>>}

UpdateInputs(ix) == {<<1, e>> : e \in [1 .. Len(ix) -> Errors]} \cup BadInputs(ix)

\* The caller hands the indexes of its last sample() back, once.
UpdateWith(inputs) ==
    /\ \E a \in inputs : UpdateSamples(a[1], a[2], returned)
    /\ returned' = IF outcome' = "ok" THEN <<>> ELSE returned
    /\ drawn' = IF outcome' = "ok" THEN <<>> ELSE drawn
    /\ is_weights' = IF outcome' = "ok" THEN <<>> ELSE is_weights

Update == UpdateWith(UpdateInputs(returned))

Next == Store \/ ClearStmemory \/ Draw \/ Update

\* The buffer with one beta schedule, every capacity, n_step_return = 1.  A call
\* that raises ends the run: no caller in the repository catches it.
Spec == Init /\ [][Next]_vars

\* A caller that passes absolute errors: one error >= 0 for each index.
UpdateNonNeg ==
    UpdateWith({<<1, e>> : e \in [1 .. Len(returned) -> {x \in Errors : x >= 0}]})

NextNonNeg == Store \/ ClearStmemory \/ Draw \/ UpdateNonNeg

\* The buffer fed with errors >= 0 only.
SpecNonNeg == Init /\ [][NextNonNeg]_vars

\* The buffer with every beta schedule.
InitBeta == InitWith({2}, {1}, BetaCfgs) /\ NoAgent

\* One sample() more than the longest schedule has steps.
DrawBeta ==
    /\ nsample < MaxBetaSteps + 1
    /\ \E bs \in 1 .. MaxBatch : Sample(bs)

NextBeta == Store \/ ClearStmemory \/ DrawBeta \/ Update

SpecBeta == InitBeta /\ [][NextBeta]_vars

\* The store path with every n_step_return and episodes that end.
InitStore == InitWith(1 .. MaxSize, 1 .. MaxN, {<<0, 1, MaxBetaSteps>>}) /\ NoAgent

StoreEpisode ==
    /\ Len(hist) < MaxN + 1
    /\ \E f \in Fragments(Len(hist), BOOLEAN) : CommitStmemory(f, Gamma)

NextStore == StoreEpisode \/ ClearStmemory

SpecStore == InitStore /\ [][NextStore]_vars

(***************************************************************************)
(* DQNAgent (agents/dqn_agent.py).  The parameters of the two networks     *)
(* live in cells of one storage; a network is the sequence of the cells it *)
(* owns, so that two networks sharing a cell share the parameter.          *)
(***************************************************************************)
Weights == {0, 1}
Taus == {Rat(1, 1), Rat(1, 2), Rat(1, 4)}

\* A copy that shares the cells of the original.
DeepcopyAlias(net) == net

\* Line 33: deepcopy gives the copy cells of its own.
Deepcopy(net) == [i \in DOMAIN net |-> net[i] + Len(net)]

\* The interpolation with the two parameters exchanged.
SoftUpdateSwapped(tv, sv, t) == RAdd(RMul(RSub(Rat(1, 1), t), sv), RMul(t, tv))

\* Line 106: (1 - tau) * tv + tau * sv
SoftUpdate(tv, sv, t) == RAdd(RMul(RSub(Rat(1, 1), t), tv), RMul(t, sv))

\* Lines 103-106: the assignments of the loop, in order.
RECURSIVE UpdateTarget(_, _, _, _)
UpdateTarget(w, source_variables, target_variables, t) ==
    IF source_variables = <<>> \/ target_variables = <<>> THEN w
    ELSE LET sv == Head(source_variables)
             tv == Head(target_variables)
         IN  UpdateTarget([w EXCEPT ![tv] = SoftUpdate(w[tv], w[sv], t)],
                          Tail(source_variables), Tail(target_variables), t)

\* Line 93: apply_gradients gives every trainable weight its new value.
ApplyGradients(w, variables_to_train, new) ==
    [c \in DOMAIN w |->
        IF \E i \in DOMAIN variables_to_train : variables_to_train[i] = c
        THEN new[CHOOSE i \in DOMAIN variables_to_train : variables_to_train[i] = c]
        ELSE w[c]]

\* Line 89: the loss is not finite when a weight is not; it may also not be
\* finite when all weights are (the batch decides).
Losses(w, net) ==
    IF \E i \in DOMAIN net : ~Finite(w[net[i]]) THEN {"nan"} ELSE {"finite", "nan"}

\* Lines 91-93: the weights after the optimizer's step.  The gradients of a loss
\* that is not finite are not finite, and neither are the weights they give.
NewWeights(net, lossv) ==
    IF lossv = "finite"
    THEN {[i \in DOMAIN net |-> Rat(nw[i], 1)] : nw \in [DOMAIN net -> Weights]}
    ELSE {[i \in DOMAIN net |-> NaN]}

\* DQNAgent.__init__, lines 29-41
InitDqn ==
    /\ InitWith({1}, {1}, {<<0, 1, 1>>})
    /\ n_envs = 1
    /\ \E k \in 1 .. MaxParams :
          /\ online_q_network = [i \in 1 .. k |-> i]
          /\ \E w0 \in [1 .. k -> Weights] :
                weights = [c \in 1 .. (2 * k) |-> Rat(w0[((c - 1) % k) + 1], 1)]
    /\ target_q_network = Deepcopy(online_q_network)
    /\ target_update_period \in 1 .. MaxPeriod
    /\ tau \in Taus
    /\ train_step = 0
    /\ loss = "finite"
    /\ calls = <<>>
    /\ nsync = 0
    /\ NoVpg
    /\ NoDriver

\* DQNAgent._train, lines 85-100
Train(lossv, new) ==
    LET w1 == ApplyGradients(weights, online_q_network, new)
        step1 == train_step + 1
        sync == step1 % target_update_period = 0
    IN  /\ outcome = "ok"
        /\ outcome' = "ok"
        /\ loss' = lossv
        /\ train_step' = step1
        /\ weights' = IF sync
                      THEN UpdateTarget(w1, online_q_network, target_q_network, tau)
                      ELSE w1
        /\ nsync' = IF sync THEN nsync + 1 ELSE nsync
        /\ calls' = <<"memory.commit_ltmemory", "memory.sample", "loss",
                      "optimizer.apply_gradients", "train_step.assign_add">>
                    \o (IF sync THEN <<"update_target">> ELSE <<>>)
                    \o <<"policy.update_eps">>
        /\ UNCHANGED <<memVars, online_q_network, target_q_network, tau,
                       target_update_period, vpgVars, drvVars>>

\* DQNAgent._update_target, lines 102-106, called on its own
UpdateTargetCall ==
    /\ outcome = "ok"
    /\ outcome' = "ok"
    /\ weights' = UpdateTarget(weights, online_q_network, target_q_network, tau)
    /\ nsync' = nsync + 1
    /\ calls' = <<"update_target">>
    /\ UNCHANGED <<memVars, online_q_network, target_q_network, train_step, tau,
                   target_update_period, loss, vpgVars, drvVars>>

TrainDqn ==
    /\ train_step < MaxTrain
    /\ \E lossv \in Losses(weights, online_q_network) :
          \E new \in NewWeights(online_q_network, lossv) : Train(lossv, new)

SyncDqn ==
    /\ nsync < MaxSync
    /\ UpdateTargetCall

NextDqn == TrainDqn \/ SyncDqn

\* The agent: its training updates and target synchronizations.
SpecDqn == InitDqn /\ [][NextDqn]_vars

(***************************************************************************)
(* VPG (pyagents/agents/vpg.py).  The parameters of the actor and of the   *)
(* critic live in cells of the storage `weights`.  The k-th call of        *)
(* remember() stores the triple (k, k, k).                                 *)
(***************************************************************************)
\* Lines 63-70: how the constructor ends.
VpgInit(a_opt, c, c_opt, tr) ==
    IF ~a_opt /\ tr THEN "ValueError"
    ELSE IF c # None /\ ~c_opt THEN "AssertionError"
    ELSE "ok"

\* A remember that drops the reward.
RememberNoReward(traj, state, action, reward) ==
    [states  |-> Append(traj.states, state),
     actions |-> Append(traj.actions, action),
     rewards |-> traj.rewards]

\* Lines 112-115
Remember(traj, state, action, reward) ==
    [states  |-> Append(traj.states, state),
     actions |-> Append(traj.actions, action),
     rewards |-> Append(traj.rewards, reward)]

\* Before VPG(...): the networks exist (train.py lines 97-101), the actor in
\* cell 1 and the critic in cell 2 of the storage; there is no agent yet.
InitVpg ==
    /\ InitWith({1}, {1}, {<<0, 1, 1>>})
    /\ n_envs = 1
    /\ online_q_network = <<>>
    /\ target_q_network = <<>>
    /\ tau = Rat(1, 1)
    /\ target_update_period = 1
    /\ nsync = 0
    /\ \E w0 \in [1 .. 2 -> Weights] : weights = [c \in 1 .. 2 |-> Rat(w0[c], 1)]
    /\ NoVpg
    /\ NoDriver
    /\ train_step = 0
    /\ loss = "finite"
    /\ calls = <<>>

\* VPG.__init__(actor, actor_opt, critic, critic_opt, training), lines 62-85.
\* An optimizer is given (TRUE) or None (FALSE).
VpgNew(a, a_opt, c, c_opt, tr) ==
    /\ outcome = "ok"
    /\ actor = <<>>
    /\ outcome' = VpgInit(a_opt, c, c_opt, tr)
    /\ IF outcome' = "ok"
       THEN /\ actor' = a
            /\ critic' = c
            /\ actor_opt' = a_opt
            /\ critic_opt' = c_opt
            /\ training' = tr
            /\ trajectory' = ClearMemory
       ELSE UNCHANGED <<actor, critic, actor_opt, critic_opt, training, trajectory>>
    /\ UNCHANGED <<memVars, dqnVars, used, drvVars>>

NewVpg ==
    \E c \in {None, <<2>>}, a_opt \in BOOLEAN, c_opt \in BOOLEAN, tr \in BOOLEAN :
        VpgNew(<<1>>, a_opt, c, c_opt, tr)

\* There is an agent: the constructor returned.
VpgConstructed == actor # <<>>

\* VPG.remember, lines 112-115
VpgRemember ==
    LET k == Len(used) + 1
    IN  /\ outcome = "ok"
        /\ VpgConstructed
        /\ k <= MaxRemember
        /\ trajectory' = Remember(trajectory, k, k, k)
        /\ used' = Append(used, 0)
        /\ UNCHANGED <<outcome, memVars, dqnOnly, weights, train_step, loss, calls,
                       actor, critic, actor_opt, critic_opt, training, drvVars>>

\* The triples that _train reads: those of the three lists (lines 137-139).
Read(traj) ==
    {traj.states[i] : i \in DOMAIN traj.states}
        \cup {traj.actions[i] : i \in DOMAIN traj.actions}
        \cup {traj.rewards[i] : i \in DOMAIN traj.rewards}

\* VPG._train, lines 135-171
VpgTrain(lossv, new) ==
    LET raised == IF trajectory.rewards = <<>> THEN "IndexError"        \* line 142
                  ELSE IF lossv # "finite" THEN "AssertionError"        \* line 157
                  ELSE IF critic = None THEN "AttributeError"           \* line 161
                  ELSE IF ~actor_opt THEN "AttributeError"              \* line 167
                  ELSE "ok"
    IN  /\ outcome = "ok"
        /\ VpgConstructed
        /\ outcome' = raised
        /\ loss' = IF raised = "IndexError" THEN loss ELSE lossv
        /\ used' = IF raised = "ok"
                   THEN [k \in DOMAIN used |->
                           IF k \in Read(trajectory) THEN used[k] + 1 ELSE used[k]]
                   ELSE used
        /\ IF raised = "ok"
           THEN /\ weights' = ApplyGradients(weights, actor \o critic, new)  \* 167-168
                /\ trajectory' = ClearMemory                                 \* 170
                /\ train_step' = train_step + 1                              \* 171
                /\ calls' = <<"loss", "actor_opt.apply_gradients",
                              "critic_opt.apply_gradients", "clear_memory">>
           ELSE /\ UNCHANGED <<weights, trajectory, train_step>>
                /\ calls' = IF raised = "IndexError" THEN <<>> ELSE <<"loss">>
        /\ UNCHANGED <<memVars, dqnOnly, actor, critic, actor_opt, critic_opt,
                       training, drvVars>>

TrainVpg ==
    /\ train_step < MaxTrain
    /\ \E lossv \in Losses(weights, actor \o critic) :
          \E new \in NewWeights(actor \o critic, lossv) : VpgTrain(lossv, new)

NextVpg == NewVpg \/ VpgRemember \/ TrainVpg

\* The agent: the triples it is given and its training updates.
SpecVpg == InitVpg /\ [][NextVpg]_vars

(***************************************************************************)
(* The drivers of train.py: train_dqn_agent, train_vpg_agent,              *)
(* train_a2c_agent and train_ddpg_agent.  A driver is at "loop" (the test  *)
(* of its outer loop), at "episode" (the test of the inner loop) or at     *)
(* "end" (the statements after the inner loop); it ends at "returned" or   *)
(* at "raised".  The environment decides `done`; memory_init, act,          *)
(* remember, train and save return.  The a2c and ddpg drivers read of      *)
(* `episode` only episode % 10 (and episode // 10, the version of a save), *)
(* so for them the model keeps episode modulo SaveEvery.                   *)
(***************************************************************************)
SaveEvery == 10

Agents == {"dqn", "vpg", "a2c", "ddpg"}

\* The drivers whose outer loop is `for episode in range(1, n_episodes + 1)`.
ForLoop(agent) == agent \in {"dqn", "vpg"}

\* The arguments of a run.  is_testing is test_ver >= 0 (lines 22, 90, 169, 244).
InitDriver ==
    /\ InitWith({1}, {1}, {<<0, 1, 1>>})
    /\ n_envs = 1
    /\ NoDqn
    /\ NoVpg
    /\ \E agent \in Agents, test_ver \in {-1, 0}, n_episodes \in 1 .. MaxEpisodes,
          episode_max_steps \in 1 .. MaxEpisodeSteps,
          total_training_steps \in 1 .. MaxTrainingSteps,
          train_every \in 1 .. MaxTrainEvery :
            args = [agent |-> agent, is_testing |-> test_ver >= 0,
                    n_episodes |-> IF ForLoop(agent) THEN n_episodes ELSE 0,
                    episode_max_steps |-> episode_max_steps,
                    total_training_steps |->
                        IF ForLoop(agent) THEN 0 ELSE total_training_steps,
                    train_every |-> IF agent \in {"dqn", "ddpg"} THEN train_every ELSE 1]
    /\ pc = "loop"
    /\ episode = 0
    /\ episode_step = 0
    /\ done = FALSE
    /\ training_step = 0
    /\ losses = "unbound"

\* The test of the outer loop and the first statements of its body: lines 46-51,
\* 124-130, 195-202, 280-286.
DriverLoop ==
    /\ pc = "loop"
    /\ IF ForLoop(args.agent)
       THEN IF episode < args.n_episodes
            THEN /\ episode' = episode + 1
                 /\ pc' = "episode"
                 /\ UNCHANGED losses
            ELSE /\ pc' = "returned"
                 /\ UNCHANGED <<episode, losses>>
       ELSE IF training_step <= args.total_training_steps
            THEN /\ episode' = (episode + 1) % SaveEvery
                 /\ pc' = "episode"
                 /\ losses' = IF args.agent = "a2c" THEN "None" ELSE losses
            ELSE /\ pc' = "returned"
                 /\ UNCHANGED <<episode, losses>>
    /\ episode_step' = 0
    /\ done' = FALSE
    /\ UNCHANGED <<args, training_step, memVars, outcome, dqnVars, vpgVars>>

\* The test of the inner loop and one pass of its body: lines 53-65, 132-144,
\* 204-219, 288-303.
DriverStep ==
    /\ pc = "episode"
    /\ IF ~done /\ episode_step < args.episode_max_steps
       THEN /\ done' \in BOOLEAN
            /\ episode_step' = episode_step + 1
            /\ pc' = "episode"
            /\ training_step' =
                  IF args.agent = "a2c" /\ ~args.is_testing
                  THEN training_step + 1 ELSE training_step
            /\ losses' =
                  IF \/ args.agent = "a2c" /\ ~args.is_testing
                     \/ /\ args.agent = "dqn"
                        /\ ~args.is_testing
                        /\ episode_step % args.train_every = 0
                     \/ /\ args.agent = "ddpg"
                        /\ ~args.is_testing
                        /\ training_step % args.train_every = 0
                  THEN "bound" ELSE losses
       ELSE /\ pc' = "end"
            /\ UNCHANGED <<done, episode_step, training_step, losses>>
    /\ UNCHANGED <<args, episode, memVars, outcome, dqnVars, vpgVars>>

\* The statements after the inner loop: lines 67-82, 145-160, 221-235, 305-322.
DriverEnd ==
    /\ pc = "end"
    /\ IF args.agent = "dqn" /\ losses = "unbound"
       THEN /\ pc' = "raised"                        \* line 73: NameError
            /\ UNCHANGED <<training_step, losses>>
       ELSE /\ pc' = "loop"
            /\ training_step' =
                  IF args.agent = "ddpg" /\ ~args.is_testing
                  THEN training_step + 1 ELSE training_step
            /\ losses' =
                  IF args.agent = "vpg" /\ ~args.is_testing THEN "bound" ELSE losses
    /\ UNCHANGED <<args, episode, episode_step, done, memVars, outcome, dqnVars,
                   vpgVars>>

NextDriver == DriverLoop \/ DriverStep \/ DriverEnd

\* A run of a driver: the interpreter keeps taking the next step while there
\* is one.
SpecDriver == InitDriver /\ [][NextDriver]_vars /\ WF_vars(NextDriver)

(***************************************************************************)
(* Properties                                                              *)
(***************************************************************************)
Slots == 0 .. (size - 1)
Leaves(tr) == {SumTreeGet(tr, size, s) : s \in Slots}

RECURSIVE SumOver(_, _)
SumOver(tr, S) ==
    IF S = {} THEN 0
    ELSE LET s == CHOOSE x \in S : TRUE
         IN  SumTreeGet(tr, size, s) + SumOver(tr, S \ {s})

\* C1: after k commits the long-term store holds min(k, size) transitions, at
\* the slots 0 .. min(k, size) - 1 and never more than size of them, len(buffer)
\* is that number, the cursor is k mod size, and the store holds the last
\* min(k, size) committed transitions, the j-th commit at slot (j - 1) mod size
\* (each commit into a full buffer has overwritten the oldest one).
C1_RingBuffer ==
    LET k == Len(log)
        m == Min2(k, size)
    IN  /\ DOMAIN ltmemory = 0 .. (m - 1)
        /\ Cardinality(DOMAIN ltmemory) <= size
        /\ SumTreeLen(assigned) = m
        /\ ptr = k % size
        /\ \A j \in 1 .. k : j > k - size => ltmemory[(j - 1) % size] = log[j]

C1_Witness ==
    /\ size > 1
    /\ Len(log) > size
    /\ \E s \in Slots : SumTreeGet(tree, size, s) = 2

\* C2: every internal node of the priority tree is the sum of its two children
\* and total() is the sum of all leaf priorities, after any interleaving of
\* commits and update_samples calls.
C2_SumInvariant ==
    /\ \A i \in Nodes(size) :
          ~IsLeaf(size, i) => tree[i] = tree[2 * i + 1] + tree[2 * i + 2]
    /\ SumTreeTotal(tree) = SumOver(tree, Slots)

C2_Witness ==
    /\ size = MaxSize
    /\ Len(log) > 1
    /\ \E s \in Slots : SumTreeGet(tree, size, s) = 2
    /\ \E s \in Slots : SumTreeGet(tree, size, s) = -1
    /\ SumTreeTotal(tree) # 0

\* C3: a step that commits transitions leaves every slot it wrote with the
\* maximum priority of the tree (the maximum before the commit, 1 if the tree
\* was empty), so that no slot has a higher priority than a newly written one,
\* and the last slot written holds the last transition committed.
C3_NewItemPriority ==
    [][Len(log') > Len(log) =>
         LET written == {(ptr + i) % size : i \in 0 .. (Len(log') - Len(log) - 1)}
             last == (ptr' - 1) % size
         IN  /\ \A s \in written :
                  /\ SumTreeGet(tree', size, s) = Max(Leaves(tree'))
                  /\ SumTreeGet(tree', size, s) =
                        IF assigned = {} THEN 1 ELSE Max(Leaves(tree))
             /\ ltmemory'[last] = log'[Len(log')]]_vars

\* A slot that held the priority -1 an update gave it has been reused.
C3_Witness ==
    /\ Len(log) > size
    /\ size > 1
    /\ SumTreeGet(tree, size, (ptr - 1) % size) = 2
    /\ \A s \in Slots : SumTreeGet(tree, size, s) = 2

\* The leaves of the subtree of node i, left to right.
RECURSIVE InOrder(_, _)
InOrder(c, i) ==
    IF IsLeaf(c, i) THEN <<i - (c - 1)>>
    ELSE InOrder(c, 2 * i + 1) \o InOrder(c, 2 * i + 2)

RECURSIVE PrefixSum(_, _, _)
PrefixSum(tr, order, m) ==
    IF m = 0 THEN 0
    ELSE SumTreeGet(tr, size, order[m]) + PrefixSum(tr, order, m - 1)

\* The slots whose range of cumulative priority [a, a + p) meets the range
\* [i * total / bs, (i + 1) * total / bs) of segment i.
Overlapping(tr, bs, i) ==
    LET order == InOrder(size, 0)
        total == SumTreeTotal(tr)
    IN  {order[m] : m \in {x \in 1 .. Len(order) :
            LET a == PrefixSum(tr, order, x - 1)
                q == SumTreeGet(tr, size, order[x])
            IN  q > 0 /\ a * bs < (i + 1) * total /\ (a + q) * bs > i * total}}

\* C4 as stated: the indexes one sample() returns are pairwise distinct.
C4_Distinct ==
    \A i, j \in DOMAIN returned : i # j => returned[i] # returned[j]

\* C4 as amended: a sample() that returns has drawn one index from each of the
\* batch_size equal-width segments [i / bs, (i + 1) / bs), in order; each index
\* is a slot that holds a transition; and while every priority is >= 0 and the
\* total is positive, the i-th index is a slot whose range of cumulative
\* priority meets the i-th segment.  (The same slot may be returned twice.)
C4_Stratified ==
    [][nsample' > nsample =>
         LET bs == Len(returned')
         IN  /\ Len(drawn') = bs
             /\ \A i \in 1 .. bs : drawn'[i] = <<i - 1, i>>
             /\ \A i \in 1 .. bs : returned'[i] \in DOMAIN ltmemory
             /\ (SumTreeTotal(tree) > 0 /\ \A q \in Leaves(tree) : q >= 0) =>
                   \A i \in 1 .. bs : returned'[i] \in Overlapping(tree, bs, i - 1)]_vars

\* One call returned the same slot twice although two slots are stored.
C4_Witness ==
    /\ nsample > 0
    /\ Len(returned) = 2
    /\ returned[1] = returned[2]
    /\ Cardinality(DOMAIN ltmemory) >= 2
    /\ \A q \in Leaves(tree) : q >= 0

C5_State ==
    beta_cfg[1] <= beta_cfg[2] =>
        /\ beta = Min2(beta_cfg[1] * beta_cfg[3] + nsample * (beta_cfg[2] - beta_cfg[1]),
                       beta_cfg[2] * beta_cfg[3])
        /\ beta_cfg[1] * beta_cfg[3] <= beta /\ beta <= beta_cfg[2] * beta_cfg[3]
        /\ (nsample >= beta_cfg[3] => beta = beta_cfg[2] * beta_cfg[3])

C5_Step ==
    beta_cfg[1] <= beta_cfg[2] =>
        /\ beta' >= beta
        /\ (beta' # beta => nsample' = nsample + 1)
        /\ (nsample' = nsample => beta' = beta)
        /\ (beta = beta_max => beta' = beta)

\* C5: for beta_start <= beta_end, after k sample() calls that returned, beta is
\* min(beta_start + k * (beta_end - beta_start) / steps, beta_end) (all over the
\* denominator steps); it is within [beta_start, beta_end], is beta_end from the
\* steps-th call on, never decreases, changes only in a step that completes a
\* sample() and not at all once it is beta_end.
C5_BetaSchedule == []C5_State /\ [][C5_Step]_vars

C5_Witness ==
    /\ beta_cfg[1] < beta_cfg[2]
    /\ beta_cfg[3] > 1
    /\ nsample > beta_cfg[3]
    /\ beta = beta_max
    /\ Len(log) > 0

\* The n-step return of the window that starts at step t, for environment b,
\* over the offsets 0 .. m - 1, times Gamma[2]^(m - 1).
RECURSIVE Discounted(_, _, _, _)
Discounted(t, b, m, k) ==
    IF k >= m THEN 0
    ELSE Pow(Gamma[1], k) * Pow(Gamma[2], m - 1 - k) * hist[t + k + 1].rewards[b]
         + Discounted(t, b, m, k + 1)

Has(t, b) == t + 1 <= Len(hist) /\ b \in DOMAIN hist[t + 1].rewards

Committed(t, b) == {j \in 1 .. Len(log) : log[j].state = <<t, b>>}

\* C6 as stated: with n_step_return > 1 nothing is committed before the window
\* of n_step_return fragments is full, and no transition in long-term memory
\* is the raw single-step transition of a fragment that did not end an episode.
C6_OnlyAggregated ==
    n + 1 > 1 =>
        /\ (Len(hist) < n + 1 => log = <<>>)
        /\ \A j \in 1 .. Len(log) :
              ~\E t \in 1 .. Len(hist) : \E b \in DOMAIN hist[t].rewards :
                  /\ ~hist[t].dones[b]
                  /\ log[j] = RawExperience(hist[t], b)

\* C7 as stated: with n_step_return = N > 1, once the fragments t .. t + N - 1
\* of environment b are stored and none is done, the transition committed for
\* step t has the reward sum_{k < N} gamma^k * r_{t+k}.
C7_NStepReward ==
    n + 1 > 1 =>
        \A t \in 0 .. (Len(hist) - 1) : \A b \in 1 .. MaxEnvs :
            ( /\ \A k \in 0 .. n : Has(t + k, b) /\ ~hist[t + k + 1].dones[b] )
            => /\ Committed(t, b) # {}
               /\ \A j \in Committed(t, b) :
                     log[j].reward.num * Pow(Gamma[2], n)
                        = log[j].reward.den * Discounted(t, b, n + 1, 0)

\* C8 as stated: with n_step_return = N > 1, if environment b is done at the
\* offset k < N - 1 of the window that starts at step t (and not before), the
\* transition committed for step t has the reward sum_{j <= k} gamma^j * r_{t+j},
\* done = True and the next state of environment b at offset k.
C8_TerminalTruncation ==
    n + 1 > 1 =>
        \A t \in 0 .. (Len(hist) - 1) : \A b \in 1 .. MaxEnvs : \A k \in 0 .. (n - 1) :
            ( /\ \A i \in 0 .. k : Has(t + i, b)
              /\ \A i \in 0 .. (k - 1) : ~hist[t + i + 1].dones[b]
              /\ Has(t + k, b) /\ hist[t + k + 1].dones[b] )
            => /\ Committed(t, b) # {}
               /\ \A j \in Committed(t, b) :
                     /\ log[j].reward.num * Pow(Gamma[2], k)
                           = log[j].reward.den * Discounted(t, b, k + 1, 0)
                     /\ log[j].done = TRUE
                     /\ log[j].next_state = <<t + k + 1, b>>

\* C9 as stated: a step update_samples(errors, indexes) leaves the priority of
\* indexes[i] at |errors[i]| (the last occurrence of a slot counts), and every
\* leaf priority is >= 0.
C9_AbsPriority ==
    [][/\ \A errors \in [1 .. Len(returned) -> Errors] :
             UpdateSamples(1, errors, returned) =>
                 \A i \in DOMAIN returned :
                     (\A j \in DOMAIN returned : j > i => returned[j] # returned[i])
                     => SumTreeGet(tree', size, returned[i]) = Abs(errors[i])
       /\ \A q \in Leaves(tree') : q >= 0]_vars

\* C10: update_samples with len(errors) # len(indexes), or with errors that are
\* not one-dimensional, ends in an AssertionError and changes no priority, no
\* stored transition, and neither the cursor nor beta.
C10_MismatchRejected ==
    [][\A a \in BadInputs(returned) :
           ((a[1] # 1 \/ Len(a[2]) # Len(returned))
              /\ UpdateSamples(a[1], a[2], returned))
           => /\ outcome' = "AssertionError"
              /\ UNCHANGED <<tree, assigned, ltmemory, stmemory, ptr, beta>>]_vars

C10_Witness ==
    /\ outcome = "AssertionError"
    /\ Len(returned) = MaxBatch
    /\ Len(log) > size
    /\ \E q \in Leaves(tree) : q = 2

Range(q) == {q[i] : i \in DOMAIN q}

\* C11: a step in which the indexes of the last sample() are handed back and
\* taken is a call update_samples(errors, indexes), with the errors now found
\* at the listed slots, that raised nothing and changed only the priorities of
\* the listed slots: the stored transitions, the short-term queue, the cursor,
\* beta and the priority of every unlisted slot are as before, whether or not
\* a commit has overwritten a listed slot since the sample.
C11_UpdateFrame ==
    [][(returned # <<>> /\ returned' = <<>>) =>
         LET errors == [i \in DOMAIN returned |->
                            SumTreeGet(tree', size, returned[i])]
         IN  /\ UpdateSamples(1, errors, returned)
             /\ outcome' = "ok"
             /\ UNCHANGED <<ltmemory, stmemory, ptr, beta>>
             /\ \A s \in Slots \ Range(returned) :
                   SumTreeGet(tree', size, s) = SumTreeGet(tree, size, s)]_vars

\* An update has written the priority 2 to a slot that a commit had overwritten
\* after the sample returned it, in a buffer with other slots.
C11_Witness ==
    /\ outcome = "ok"
    /\ returned = <<>>
    /\ size > 1
    /\ Len(log) > size
    /\ \E s \in stale : SumTreeGet(tree, size, s) = 2
    /\ \E s \in Slots \ stale : SumTreeGet(tree, size, s) # 2

\* The values of the parameters of a network, in the order of its variables.
Values(w, net) == [i \in DOMAIN net |-> w[net[i]]]

\* C12: a target synchronization (_update_target called on its own or by a
\* training update) sets every target parameter to
\* (1 - tau) * target + tau * online, for finite parameters and the online
\* parameters of the moment of the call; called on its own it leaves the online
\* parameters unchanged; with tau = 1 the target parameter then equals the
\* online one, and with 0 < tau < 1 the difference target - online is (1 - tau)
\* times what it was.
C12_TargetSync ==
    [][nsync' = nsync + 1 =>
         /\ train_step' = train_step =>
               Values(weights', online_q_network) = Values(weights, online_q_network)
         /\ \A i \in DOMAIN target_q_network :
               LET o == weights'[online_q_network[i]]
                   t0 == weights[target_q_network[i]]
                   t1 == weights'[target_q_network[i]]
                   keep == Rat(tau.den - tau.num, tau.den)
               IN  (Finite(o) /\ Finite(t0)) =>
                      /\ t1.num * (keep.den * t0.den * tau.den * o.den)
                            = t1.den * (keep.num * t0.num * tau.den * o.den
                                        + tau.num * o.num * keep.den * t0.den)
                      /\ tau.num = tau.den => t1 = o
                      /\ (0 < tau.num /\ tau.num < tau.den) =>
                            RSub(t1, o) = RMul(keep, RSub(t0, o))]_vars

\* After one update that left the target alone, two synchronizations with
\* tau = 1/4 have brought a target parameter to 7/16 or 9/16.
C12_Witness ==
    /\ tau = Rat(1, 4)
    /\ train_step = 1
    /\ nsync = 2
    /\ \E i \in DOMAIN target_q_network :
          /\ weights[target_q_network[i]].den = 16
          /\ Finite(weights[online_q_network[i]])

\* C13: the target network owns no cell of the online network; a training
\* update increases the step counter by exactly 1; the target parameters change
\* only in a step that synchronizes them, and in a training update only when
\* the counter it leaves is a multiple of target_update_period.
C13_State ==
    {online_q_network[i] : i \in DOMAIN online_q_network}
        \cap {target_q_network[i] : i \in DOMAIN target_q_network} = {}

C13_Step ==
    /\ train_step' # train_step =>
          /\ train_step' = train_step + 1
          /\ (train_step' % target_update_period # 0 =>
                 /\ Values(weights', target_q_network) = Values(weights, target_q_network)
                 /\ nsync' = nsync)
          /\ (train_step' % target_update_period = 0 => nsync' = nsync + 1)
    /\ Values(weights', target_q_network) # Values(weights, target_q_network) =>
          nsync' = nsync + 1

C13_TargetPeriod == []C13_State /\ [][C13_Step]_vars

\* Two updates with period 2 and tau = 1/2: the first left the target alone,
\* the second has moved a target parameter half the way to the online one.
C13_Witness ==
    /\ target_update_period = 2
    /\ tau = Rat(1, 2)
    /\ train_step = 2
    /\ nsync = 1
    /\ loss = "finite"
    /\ \E i \in DOMAIN target_q_network : weights[target_q_network[i]].den = 2

\* C14 as stated: a training update calls update_samples on the memory exactly
\* once, after the gradients have been applied.
C14_PriorityFeedback ==
    (train_step > 0 /\ Len(calls) > 1) =>
        /\ Cardinality({i \in DOMAIN calls : calls[i] = "memory.update_samples"}) = 1
        /\ \A i, j \in DOMAIN calls :
              (calls[i] = "optimizer.apply_gradients"
                  /\ calls[j] = "memory.update_samples") => i < j

\* C15 as stated: every weight of the last sample() is a number in (0, 1] and
\* the largest of them is 1.  (With alpha > 0 and an exponent > 0, the weight
\* (p^alpha)^(e / steps) is in (0, 1] exactly when p is, and is 1 exactly when
\* p is.)
C15_WeightsNormalized ==
    /\ \A i \in DOMAIN is_weights :
          /\ is_weights[i] # NaN
          /\ is_weights[i].x.c = Rat(1, 1) /\ is_weights[i].x.s = 0
          /\ RLess(Rat(0, 1), is_weights[i].x.p)
          /\ ~RLess(Rat(1, 1), is_weights[i].x.p)
    /\ is_weights # <<>> =>
          \E i \in DOMAIN is_weights : is_weights[i].x.p = Rat(1, 1)

\* C16 as stated: a training update whose loss is not finite raises, and leaves
\* the parameters and the step counter as they were.
C16_NonFiniteAborts ==
    [][(\E new \in NewWeights(online_q_network, "nan") : Train("nan", new)) =>
          /\ outcome' # "ok"
          /\ weights' = weights
          /\ train_step' = train_step]_vars

\* C18 as stated: once a transition is committed, and with errors >= 0 only, a
\* sample() draws from a tree whose total is > 0, raises nothing and returns
\* only slots that hold a transition.
C18_SampleSafe ==
    [][(Len(log) > 0 /\ (nsample' > nsample \/ outcome' = "KeyError")) =>
          /\ SumTreeTotal(tree) > 0
          /\ outcome' = "ok"
          /\ \A i \in DOMAIN returned' : returned'[i] \in DOMAIN ltmemory]_vars

\* C17: a VPG agent constructed with critic = None and an actor optimizer
\* completes a training update on a non-empty trajectory with a finite loss:
\* no error, the trajectory is cleared, the step counter is incremented and
\* no parameter outside the actor changes; and the constructor fails when it
\* is given a critic without a critic optimizer, or training = TRUE without an
\* actor optimizer.
C17_NoBaseline ==
    [][/\ \A c \in {None, <<2>>}, a_opt \in BOOLEAN, c_opt \in BOOLEAN, tr \in BOOLEAN :
            (/\ VpgNew(<<1>>, a_opt, c, c_opt, tr)
             /\ ((c # None /\ ~c_opt) \/ (tr /\ ~a_opt)))
                => outcome' # "ok"
       /\ (/\ VpgConstructed
           /\ critic = None
           /\ actor_opt
           /\ trajectory.rewards # <<>>
           /\ \E new \in NewWeights(actor, "finite") : VpgTrain("finite", new))
              => /\ outcome' = "ok"
                 /\ trajectory' = ClearMemory
                 /\ train_step' = train_step + 1
                 /\ \A cell \in DOMAIN weights \ Range(actor) :
                       weights'[cell] = weights[cell]]_vars

\* C19: the three lists of the trajectory always have the same length; a
\* completed training update leaves them empty and adds exactly 1 to the step
\* counter; a triple still in the trajectory was read by no completed update,
\* and a triple no longer in it by exactly one.
C19_State ==
    /\ Len(trajectory.states) = Len(trajectory.actions)
    /\ Len(trajectory.actions) = Len(trajectory.rewards)
    /\ \A k \in DOMAIN used :
          used[k] = IF k \in Read(trajectory) THEN 0 ELSE 1

C19_Step ==
    (VpgConstructed /\ (train_step' # train_step \/ used' # used
                         \/ (trajectory # ClearMemory /\ trajectory' = ClearMemory)))
        => \/ /\ train_step' = train_step
              /\ trajectory' = Remember(trajectory, Len(used) + 1, Len(used) + 1,
                                         Len(used) + 1)
           \/ /\ train_step' = train_step + 1
              /\ trajectory' = ClearMemory
              /\ outcome' = "ok"
              /\ \A k \in Read(trajectory) : used[k] = 0 /\ used'[k] = 1

C19_Trajectory == []C19_State /\ [][C19_Step]_vars

C19_Witness ==
    /\ outcome = "ok"
    /\ train_step = 2
    /\ Len(used) = 3
    /\ trajectory = ClearMemory
    /\ \A k \in DOMAIN used : used[k] = 1

\* C20: every run of a driver terminates, in training mode and in evaluation
\* mode: it returns or it raises.
C20_Terminates == <>(pc \in {"returned", "raised"})
====
